---- MODULE Spec2Model ----
(***************************************************************************)
(* reptyr.c: command-line front end of reptyr.  main() parses the options, *)
(* allocates a pseudo-terminal, attaches to / steals from the target or    *)
(* spawns a child, then puts the controlling terminal in raw mode, relays  *)
(* bytes between the terminal and the pty (do_proxy) and restores the      *)
(* terminal attributes.                                                    *)
(*                                                                         *)
(* System calls and the external backend (attach_child, steal_pty, get_pt) *)
(* are the environment: each call's outcome is a nondeterministic choice.  *)
(* getopt is modelled as POSIX specifies it (scanning stops at the first   *)
(* operand); command lines hold one option letter per "-x" word.           *)
(***************************************************************************)
EXTENDS Integers, Sequences, FiniteSets, TLC

(***************************** bounds **************************************)
\* width of long and of pid_t, scaled down from 64 and 32 bits
LongBits == 7
PidBits == 4
\* longest pid word on the command line
MaxPidLen == 2
\* sizeof buf in do_proxy, scaled down from 4096
ChunkSize == 2
\* bytes the environment supplies on each side of the relay
MaxPayload == 3
\* resize notifications the environment sends
MaxWinch == 2

LONG_MAX == 2^(LongBits - 1) - 1
LONG_MIN == -(2^(LongBits - 1))
PID_MAX == 2^(PidBits - 1) - 1

(************************* command-line words ******************************)
\* A word of argv is a sequence of characters.
Prog == <<"r">>
Cmd == <<"c">>
CmdArg == <<"a">>
DashDash == <<"-", "-">>
Opt(c) == <<"-", c>>

Digits == {"0", "1", "7"}
PidChars == Digits \cup {"-", "x"}
DigitVal(c) == CASE c = "0" -> 0 [] c = "1" -> 1 [] c = "7" -> 7 [] OTHER -> 0

RECURSIVE WordsUpTo(_)
WordsUpTo(n) ==
    IF n = 0 THEN {<<>>}
    ELSE LET shorter == WordsUpTo(n - 1)
         IN shorter \cup {Append(w, c) : w \in {v \in shorter : Len(v) = n - 1},
                                          c \in PidChars}
PidWords == WordsUpTo(MaxPidLen)

\* the accepted pid words the relay environment is explored for in full
One == <<"1">>

(***************************** strtol **************************************)
\* strtol(s, &endptr, 10): optional sign, then the longest run of digits;
\* no digits: value 0 and endptr = s.  Out of range: clamped, errno = ERANGE.
RECURSIVE DigitsEnd(_, _)
DigitsEnd(s, i) ==
    IF i <= Len(s) /\ s[i] \in Digits THEN DigitsEnd(s, i + 1) ELSE i

RECURSIVE DigitsValue(_, _, _)
DigitsValue(s, i, j) ==
    \* value of the digits s[i..j-1]
    IF i >= j THEN 0 ELSE DigitsValue(s, i, j - 1) * 10 + DigitVal(s[j - 1])

Strtol(s) ==
    LET neg   == Len(s) >= 1 /\ s[1] = "-"
        first == IF neg THEN 2 ELSE 1
        stop  == DigitsEnd(s, first)
        mag   == DigitsValue(s, first, stop)
        val   == IF neg THEN -mag ELSE mag
    IN IF stop = first
       THEN [value |-> 0, endptr |-> 1, erange |-> FALSE]
       ELSE IF val > LONG_MAX
            THEN [value |-> LONG_MAX, endptr |-> stop, erange |-> TRUE]
            ELSE IF val < LONG_MIN
                 THEN [value |-> LONG_MIN, endptr |-> stop, erange |-> TRUE]
                 ELSE [value |-> val, endptr |-> stop, erange |-> FALSE]

\* (pid_t)t: conversion of a long to the narrower signed pid_t
ToPidT(t) ==
    LET m == t % (2^PidBits)
    IN IF m >= 2^(PidBits - 1) THEN m - 2^PidBits ELSE m

\* the reasons main gives for an invalid pid
InvalidPid == {"erange", "not_integer", "range"}

PidRejectNoNarrowing(s) ==
    LET r == Strtol(s)
        t == r.value
    IN IF r.erange THEN "erange"
       ELSE IF r.endptr <= Len(s) THEN "not_integer"
       ELSE IF t < 1 THEN "range"
       ELSE ""

PidRejectNoEndptr(s) ==
    LET r == Strtol(s)
        t == r.value
    IN IF r.erange THEN "erange"
       ELSE IF ToPidT(t) < t \/ t < 1 THEN "range"
       ELSE ""

\* the three die() tests of main on the pid word: "" when none fires

PidReject(s) ==
    LET r == Strtol(s)
        t == r.value
    IN IF r.erange THEN "erange"
       ELSE IF r.endptr <= Len(s) THEN "not_integer"
       ELSE IF ToPidT(t) < t \/ t < 1 THEN "range"
       ELSE ""


(************************ terminal attributes ******************************)
\* struct termios, reduced to two flags cfmakeraw clears and one it keeps
Termios == [echo : BOOLEAN, icanon : BOOLEAN, cread : BOOLEAN]
\* attributes of the controlling terminal when reptyr starts
InitialTermios == [echo |-> FALSE, icanon |-> TRUE, cread |-> TRUE]
\* struct termios saved_termios: valid is FALSE until tcgetattr has stored
\* into it; attr is then indeterminate and the placeholder is never read
Uninit == [valid |-> FALSE,
           attr |-> [echo |-> FALSE, icanon |-> FALSE, cread |-> FALSE]]
StoredAfterRaw(t) == [valid |-> TRUE, attr |-> [t EXCEPT !.echo = FALSE, !.icanon = FALSE]]
Stored(t) == [valid |-> TRUE, attr |-> t]
\* what reading saved_termios yields
ValuesOf(saved) == IF saved.valid THEN {saved.attr} ELSE Termios

\* cfmakeraw(&set)
CfMakeRaw(t) == [t EXCEPT !.echo = FALSE, !.icanon = FALSE]

(***************************** window sizes *******************************)
\* struct winsize as <<ws_row, ws_col, ws_xpixel, ws_ypixel>>
TtySizes == {<<24, 80, 0, 0>>, <<50, 132, 0, 0>>}
NewPtySize == <<0, 0, 0, 0>>
\* struct winsize defaultsize
DefaultSizeSwapped == <<80, 30, 640, 480>>
DefaultSize == <<30, 80, 640, 480>>

(******************************* state *************************************)
VARIABLES
    argv,            \* the command line, argv[1] is the program name (C argv[0])
    optind,          \* getopt's index of the next word, as in C
    do_attach, force_stdio, do_steal, unattached_script_redirection, verbose,
    pc,              \* position of the parent process
    exitCode,        \* exit status once pc = "exited", -1 before
    pty,             \* int pty: "uninit", "master" (get_pt) or "stolen" (steal_pty)
    ptyOps,          \* get_pt / unlockpt / grantpt calls made, in order
    child,           \* pid_t child, 0 outside its block
    calls,           \* calls made to the backend, in order
    kid,             \* the forked child process
    msgs,            \* lines printed to stdout / stderr, in order
    saved_termios,   \* struct termios saved_termios of main
    tty_termios,     \* attributes of the controlling terminal
    sigBlocked,      \* SIGWINCH is in the process signal mask
    handler,         \* do_winch is installed for SIGWINCH
    sigPending,      \* a SIGWINCH is pending
    winch_happened,
    ttySize,         \* size of the controlling terminal, TIOCGWINSZ on fd 0
    ptySize,         \* size of the target, TIOCSWINSZ on pty
    input,           \* bytes readable on each side and not yet read
    delivered,       \* bytes written to each destination, in order
    set,             \* fd_set after pselect
    buf, count,      \* char buf[4096], ssize_t count of do_proxy
    wfd, woff, wcount, \* writeall: fd, offset of buf pointer, remaining count
    env,             \* what the environment does in this run: the bytes it
                     \* supplies on each side and the resizes it sends
    hist             \* history: what has happened, for stating properties

argVars == <<argv, optind, do_attach, force_stdio, do_steal,
             unattached_script_redirection, verbose>>
ptyVars == <<pty, ptyOps, child, calls, kid>>
termVars == <<saved_termios, tty_termios>>
sigVars == <<sigBlocked, handler, sigPending, winch_happened>>
sizeVars == <<ttySize, ptySize>>
ioVars == <<input, delivered>>
bufVars == <<set, buf, count, wfd, woff, wcount>>
vars == <<argVars, pc, exitCode, ptyVars, msgs, termVars, sigVars, sizeVars,
          ioVars, bufVars, env, hist>>

argc == Len(argv)
\* argv[i] of the C program
Word(i) == argv[i + 1]

Sides == {"local", "pty"}
\* destination of the bytes read on a side: the pty master, or fd 1
Dest(side) == IF side = "local" THEN "pty" ELSE "out"
\* the i-th byte the environment supplies on a side
Byte(side, i) == IF side = "local" THEN i ELSE 10 + i

Min(a, b) == IF a < b THEN a ELSE b

(*************************** command lines *********************************)
OptPrefixes == {<<>>, <<Opt("s")>>, <<Opt("T")>>, <<DashDash>>}
ArgvSet ==
    {<<Prog>>}
    \cup {<<Prog>> \o p \o <<w>> : p \in OptPrefixes, w \in PidWords}
    \cup {<<Prog, Opt("h")>>, <<Prog, Opt("v")>>, <<Prog, Opt("y"), One>>,
          <<Prog, Opt("V"), One>>, <<Prog, Opt("V"), Opt("T"), One>>,
          <<Prog, Opt("l")>>, <<Prog, Opt("L")>>,
          <<Prog, Opt("l"), Cmd>>, <<Prog, Opt("L"), Cmd, CmdArg>>,
          <<Prog, Opt("V"), Opt("l")>>, <<Prog, Opt("T"), Opt("l")>>,
          <<Prog, Opt("T"), Opt("L"), Cmd>>}

\* The command lines are explored against a quiet environment, and the relay
\* of the plain attach against a byte-heavy and a resize-heavy environment.
Quiet == [local |-> 0, pty |-> 0, winches |-> 0]
Busy == {[local |-> MaxPayload, pty |-> 1, winches |-> 0],
         [local |-> 1, pty |-> MaxPayload, winches |-> 0],
         [local |-> 1, pty |-> 1, winches |-> MaxWinch]}
Scenarios ==
    {<<a, Quiet>> : a \in ArgvSet} \cup {<<a, e>> : a \in {<<Prog, One>>}, e \in Busy}

\* history of a writeall call: its arguments, the length of the destination
\* when it was entered, whether it has returned and what, the errno of its
\* last write and whether a write of it was interrupted
NoWriteall == [fd |-> "none", data |-> <<>>, from |-> 0, done |-> FALSE, ret |-> 0,
               errno |-> "none", eintr |-> FALSE]

\* the state when main is entered, for a set of command lines and environments
InitWith(scenarios) ==
    /\ \E sc \in scenarios : argv = sc[1] /\ env = sc[2]
    /\ optind = 1
    /\ do_attach = TRUE
    /\ force_stdio = FALSE
    /\ do_steal = FALSE
    /\ unattached_script_redirection = FALSE
    /\ verbose = FALSE
    /\ pc = "getopt"
    /\ exitCode = -1
    /\ pty = "uninit"
    /\ ptyOps = <<>>
    /\ child = 0
    /\ calls = <<>>
    /\ kid = [pc |-> "none"]
    /\ msgs = <<>>
    /\ saved_termios = Uninit
    /\ tty_termios = InitialTermios
    /\ sigBlocked = FALSE
    /\ handler = FALSE
    /\ sigPending = FALSE
    /\ winch_happened = FALSE
    /\ ttySize = <<24, 80, 0, 0>>
    /\ ptySize = NewPtySize
    /\ input = [s \in Sides |-> <<>>]
    /\ delivered = [d \in {"pty", "out"} |-> <<>>]
    /\ set = {}
    /\ buf = <<>>
    /\ count = 0
    /\ wfd = "none"
    /\ woff = 0
    /\ wcount = 0
    /\ hist = [tty0 |-> tty_termios,   \* terminal attributes at startup
               arrived |-> [s \in Sides |-> 0],
               winches |-> 0,
               rawSet |-> FALSE,       \* setup_raw applied raw mode
               snapshot |-> FALSE,     \* setup_raw stored saved_termios
               proxy |-> FALSE,        \* do_proxy was called
               loopEnd |-> "none",     \* why do_proxy returned
               restores |-> 0,         \* successful tcsetattr calls of teardown
               died |-> "none",        \* the die() that ended the process
               diag |-> 0,             \* calls of check_ptrace_scope
               forks |-> 0,
               resize |-> [calls |-> 0, got |-> TRUE, applied |-> FALSE],
                                       \* resize_pty: calls so far modulo 2, and
                                       \* the outcome of the last one
               lastWait |-> "none",    \* how the last pselect returned
               err |-> "none",         \* what the backend returned
               gaveUp |-> {},          \* destinations a writeall failed on
               wa |-> NoWriteall]      \* the last writeall call

Init == InitWith(Scenarios)


(****************************** main ***************************************)
Say(m) == msgs' = Append(msgs, m)

\* return n from main, or exit(n)
Exit(n) == pc' = "exited" /\ exitCode' = n

\* die(msg): print and exit(1)
Die(what) ==
    /\ Say(<<"die", what>>)
    /\ Exit(1)
    /\ hist' = [hist EXCEPT !.died = what]

OptString == {"h", "l", "L", "s", "T", "v", "V"}

\* getopt() returns -1: no word left, an operand, or "--" (which it skips)
OptionsEnd ==
    \/ optind >= argc
    \/ Len(Word(optind)) < 2
    \/ Word(optind)[1] # "-"
    \/ Word(optind) = DashDash

\* one iteration of the option loop
GetOpt ==
    /\ pc = "getopt"
    /\ IF OptionsEnd
       THEN /\ optind' = IF optind < argc /\ Word(optind) = DashDash
                         THEN optind + 1 ELSE optind
            /\ pc' = "check_args"
            /\ UNCHANGED <<do_attach, force_stdio, do_steal,
                           unattached_script_redirection, verbose, exitCode, msgs>>
       ELSE LET opt == Word(optind)[2] IN
            /\ optind' = optind + 1
            /\ do_attach' = IF opt \in {"l", "L"} THEN FALSE ELSE do_attach
            /\ unattached_script_redirection' =
                   IF opt = "L" THEN TRUE ELSE unattached_script_redirection
            /\ force_stdio' = IF opt = "s" THEN TRUE ELSE force_stdio
            /\ do_steal' = IF opt = "T" THEN TRUE ELSE do_steal
            /\ verbose' = IF opt = "V" THEN TRUE ELSE verbose
            /\ CASE opt = "h" -> Say(<<"usage">>) /\ Exit(0)
                 [] opt = "v" -> Say(<<"version">>) /\ Exit(0)
                 [] opt \notin OptString -> Say(<<"usage">>) /\ Exit(1)
                 [] opt \in {"l", "L"} ->
                        \* the rest is a command line
                        pc' = "check_args" /\ UNCHANGED <<exitCode, msgs>>
                 [] OTHER -> pc' = "getopt" /\ UNCHANGED <<exitCode, msgs>>
    /\ UNCHANGED <<argv, ptyVars, env, termVars, sigVars, sizeVars, ioVars, bufVars, hist>>

NeedsAllocationAlways == TRUE
\* if (!do_steal): the pseudo-terminal is allocated unless -T was given
NeedsAllocation == ~do_steal

\* if (do_attach && optind >= argc): no pid given
CheckArgs ==
    /\ pc = "check_args"
    /\ IF do_attach /\ optind >= argc
       THEN /\ msgs' = msgs \o << <<"no_pid">>, <<"usage">> >>
            /\ Exit(1)
       ELSE /\ pc' = IF NeedsAllocation THEN "get_pt"
                     ELSE IF do_attach THEN "parse_pid" ELSE "detached"
            /\ UNCHANGED <<exitCode, msgs>>
    /\ UNCHANGED <<argVars, env, ptyVars, termVars, sigVars, sizeVars, ioVars, bufVars, hist>>

\* get_pt, unlockpt, grantpt: each may fail, and the first failure is fatal
PtySetupCalls == <<"get_pt", "unlockpt", "grantpt">>

AllocatePty ==
    /\ pc = "get_pt"
    /\ \E made \in 1..Len(PtySetupCalls), ok \in BOOLEAN :
          /\ ok => made = Len(PtySetupCalls)
          /\ ptyOps' = SubSeq(PtySetupCalls, 1, made)
          /\ pty' = IF made > 1 \/ ok THEN "master" ELSE pty
          /\ IF ok
             THEN /\ pc' = IF do_attach THEN "parse_pid" ELSE "detached"
                  /\ UNCHANGED <<exitCode, msgs, hist>>
             ELSE Die(PtySetupCalls[made])
    /\ UNCHANGED <<argVars, env, child, calls, kid, termVars, sigVars, sizeVars,
                   ioVars, bufVars>>

\* strtol and the validation of the pid
ParsePid ==
    /\ pc = "parse_pid"
    /\ LET why == PidReject(Word(optind)) IN
       IF why # ""
       THEN Die(why) /\ UNCHANGED child
       ELSE /\ child' = ToPidT(Strtol(Word(optind)).value)
            /\ pc' = "attach"
            /\ UNCHANGED <<exitCode, msgs, hist>>
    /\ UNCHANGED <<argVars, env, pty, ptyOps, calls, kid, termVars, sigVars, sizeVars,
                   ioVars, bufVars>>

\* ptsname(pty): the slave's path; of an int never assigned, anything
Ptsname(p) ==
    IF p = "master" THEN {"/dev/pts/new"} ELSE {"(null)", "/dev/pts/other"}

\* error codes the backend may return; "OK" is 0
BackendErrors == {"OK", "EPERM", "ESRCH"}

\* the diagnostic is asked for when err == EPERM
WantsDiagnosticOnAnyError(err) == err # "OK"
WantsDiagnostic(err) == err = "EPERM"

\* steal_pty(child, &pty) or attach_child(child, ptsname(pty), force_stdio)
Attach ==
    /\ pc = "attach"
    /\ \E err \in BackendErrors, path \in Ptsname(pty) :
          /\ calls' = Append(calls,
                 IF do_steal
                 THEN [fn |-> "steal_pty", pid |-> child, path |-> "", force |-> FALSE]
                 ELSE [fn |-> "attach_child", pid |-> child, path |-> path,
                       force |-> force_stdio])
          /\ pty' = IF do_steal /\ err = "OK" THEN "stolen" ELSE pty
          /\ IF err # "OK"
             THEN /\ Say(<<"unable_to_attach", child, err>>)
                  /\ hist' = [hist EXCEPT
                         !.err = err,
                         !.diag = IF WantsDiagnostic(err) THEN @ + 1 ELSE @]
                  /\ Exit(1)
                  /\ UNCHANGED child
             ELSE /\ pc' = "setup_raw"
                  /\ child' = 0
                  /\ hist' = [hist EXCEPT !.err = err]
                  /\ UNCHANGED <<exitCode, msgs>>
    /\ UNCHANGED <<argVars, env, ptyOps, kid, termVars, sigVars, sizeVars, ioVars, bufVars>>

AfterDetachedLeaves == "exited"
\* the parent goes on after the else branch of if (do_attach)
AfterDetached == "setup_raw"

\* else branch: print the slave's path, and fork when argc > 2
Detached ==
    /\ pc = "detached"
    /\ \E path \in Ptsname(pty), forked \in BOOLEAN :
          /\ Say(<<"opened", path>>)
          /\ forked => argc > 2
          /\ kid' = IF forked THEN [pc |-> "forked"] ELSE kid
          /\ hist' = [hist EXCEPT !.forks = IF forked THEN @ + 1 ELSE @]
    /\ pc' = AfterDetached
    /\ UNCHANGED <<argVars, env, exitCode, pty, ptyOps, child, calls, termVars, sigVars,
                   sizeVars, ioVars, bufVars>>

\* the child: setenv, the redirection of -L, close(pty), execvp(argv[2], argv + 2)
ChildRun ==
    /\ kid.pc = "forked"
    /\ \E path \in Ptsname(pty), execOk \in BOOLEAN :
          kid' = [pc |-> IF execOk THEN "exec" ELSE "exited",
                  REPTYR_PTY |-> path,
                  redirected |-> unattached_script_redirection,
                  file |-> Word(2),
                  args |-> SubSeq(argv, 3, Len(argv))]
    /\ UNCHANGED <<argVars, env, pc, exitCode, pty, ptyOps, child, calls, msgs, termVars,
                   sigVars, sizeVars, ioVars, bufVars, hist>>


(**************************** setup_raw ************************************)
SetupRawPathIgnoresApply(got, applied) ==
    IF ~got THEN "return" ELSE "raw"
\* how setup_raw ends, given whether tcgetattr and tcsetattr succeed: it
\* returns early, returns with raw mode applied, or dies
SetupRawPath(got, applied) ==
    IF ~got THEN "return" ELSE IF applied THEN "raw" ELSE "die"

\* tcgetattr(0, save); set = *save; cfmakeraw(&set); tcsetattr(0, TCSANOW, &set)
SetupRaw ==
    /\ pc = "setup_raw"
    /\ \E got \in BOOLEAN, applied \in BOOLEAN :
          LET path == SetupRawPath(got, applied) IN
          /\ saved_termios' = IF got THEN Stored(tty_termios) ELSE saved_termios
          /\ tty_termios' = IF got /\ applied THEN CfMakeRaw(tty_termios)
                            ELSE tty_termios
          /\ CASE path = "return" ->
                     /\ Say(<<"unable_to_read_attributes">>)
                     /\ pc' = "sigprocmask"
                     /\ hist' = [hist EXCEPT !.proxy = TRUE]
                     /\ UNCHANGED exitCode
               [] path = "raw" ->
                     /\ pc' = "sigprocmask"
                     /\ hist' = [hist EXCEPT !.proxy = TRUE, !.snapshot = TRUE,
                                             !.rawSet = TRUE]
                     /\ UNCHANGED <<exitCode, msgs>>
               [] OTHER -> Die("tcsetattr_raw")
    /\ UNCHANGED <<argVars, env, ptyVars, sigVars, sizeVars, ioVars, bufVars>>

(**************************** resize_pty ***********************************)
\* the size resize_pty passes to TIOCSWINSZ: the terminal's, or the default
\* when TIOCGWINSZ on fd 0 failed
SizeToApply(got) == IF got THEN ttySize ELSE DefaultSize

\* resize_pty(pty); only a failure to apply the default size is reported
ResizePty ==
    \E got \in BOOLEAN, applied \in BOOLEAN :
       /\ ptySize' = IF applied THEN SizeToApply(got) ELSE ptySize
       /\ msgs' = IF ~got /\ ~applied
                  THEN Append(msgs, <<"cannot_set_terminal_size">>) ELSE msgs
       /\ hist' = [hist EXCEPT !.resize = [calls |-> (@.calls + 1) % 2,
                                           got |-> got, applied |-> applied]]

(***************************** do_proxy ************************************)
SigBlockMaskEmpty == {}
\* sigemptyset(&mask); sigaddset(&mask, SIGWINCH): the set given to SIG_BLOCK
SigBlockMask == {"SIGWINCH"}

SelectMaskBlocksWinch == {"SIGWINCH"}
\* sigemptyset(&select_mask): the signal mask in force during pselect
SelectMask == {}

\* a pending SIGWINCH is delivered to do_winch during pselect
Deliverable == sigPending /\ handler /\ "SIGWINCH" \notin SelectMask

\* return from do_proxy
ProxyReturn(why) ==
    /\ pc' = "restore"
    /\ hist' = [hist EXCEPT !.loopEnd = why,
                            !.lastWait = IF why = "pselect" THEN "error" ELSE @]

\* sigprocmask(SIG_BLOCK, {SIGWINCH})
BlockWinch ==
    /\ pc = "sigprocmask"
    /\ \E ok \in BOOLEAN :
          IF ok
          THEN /\ sigBlocked' = ("SIGWINCH" \in SigBlockMask)
               /\ pc' = "sigaction"
               /\ UNCHANGED <<msgs, hist>>
          ELSE /\ Say(<<"sigprocmask">>)
               /\ ProxyReturn("sigprocmask")
               /\ UNCHANGED sigBlocked
    /\ UNCHANGED <<argVars, env, exitCode, ptyVars, termVars, handler, sigPending,
                   winch_happened, sizeVars, ioVars, bufVars>>

\* sigaction(SIGWINCH, do_winch)
InstallHandler ==
    /\ pc = "sigaction"
    /\ handler' = TRUE
    /\ pc' = "resize_pty"
    /\ UNCHANGED <<argVars, env, exitCode, ptyVars, msgs, termVars, sigBlocked, sigPending,
                   winch_happened, sizeVars, ioVars, bufVars, hist>>

\* the resize_pty(pty) before the loop
FirstResize ==
    /\ pc = "resize_pty"
    /\ ResizePty
    /\ pc' = "loop"
    /\ UNCHANGED <<argVars, env, exitCode, ptyVars, termVars, sigVars, ttySize, ioVars,
                   bufVars>>

\* top of the loop: if (winch_happened) { winch_happened = 0; resize_pty(pty); }
\* then FD_ZERO(&set); FD_SET(0, &set); FD_SET(pty, &set).  buf and count
\* are dead here (each is read into before it is used) and are forgotten.
LoopTop ==
    /\ pc = "loop"
    /\ IF winch_happened
       THEN winch_happened' = FALSE /\ ResizePty
       ELSE UNCHANGED <<winch_happened, ptySize, msgs, hist>>
    /\ set' = Sides
    /\ buf' = <<>>
    /\ count' = 0
    /\ pc' = "pselect"
    /\ UNCHANGED <<argVars, exitCode, ptyVars, termVars, sigBlocked, handler,
                   sigPending, ttySize, ioVars, wfd, woff, wcount, env>>

\* the sets of descriptors pselect may report: a descriptor is readable when
\* it has bytes, or when a read of it returns at once with 0 or an error
ReadySets == (SUBSET Sides) \ {{}}

\* where the loop goes once the local side is done
AfterLocal(ready) == IF "pty" \in ready THEN "read_pty" ELSE "loop"

\* pselect returns the ready descriptors.  A pending SIGWINCH, unblocked for
\* the call, either stays pending (the mask is restored first) or has its
\* handler run although the call reports descriptors.
PselectReady ==
    /\ pc = "pselect"
    /\ \E ready \in ReadySets :
          /\ set' = ready
          /\ pc' = IF "local" \in ready THEN "read_local" ELSE "read_pty"
    /\ \E ran \in BOOLEAN :
          /\ ran => Deliverable
          /\ sigPending' = IF ran THEN FALSE ELSE sigPending
          /\ winch_happened' = IF ran THEN TRUE ELSE winch_happened
    /\ hist' = [hist EXCEPT !.lastWait = "ready"]
    /\ UNCHANGED <<argVars, env, exitCode, ptyVars, msgs, termVars, sigBlocked, handler,
                   sizeVars, ioVars, buf, count, wfd, woff, wcount>>

DoWinchNoFlag == winch_happened' = winch_happened
\* do_winch(signal)
DoWinch == winch_happened' = TRUE

\* pselect is interrupted: the handler runs, errno = EINTR, continue
PselectInterrupted ==
    /\ pc = "pselect"
    /\ Deliverable
    /\ sigPending' = FALSE
    /\ DoWinch
    /\ pc' = "loop"
    /\ hist' = [hist EXCEPT !.lastWait = "EINTR"]
    /\ UNCHANGED <<argVars, env, exitCode, ptyVars, msgs, termVars, sigBlocked, handler,
                   sizeVars, ioVars, bufVars>>

\* pselect fails with another error
PselectFails ==
    /\ pc = "pselect"
    /\ Say(<<"select">>)
    /\ ProxyReturn("pselect")
    /\ UNCHANGED <<argVars, env, exitCode, ptyVars, termVars, sigVars, sizeVars, ioVars,
                   bufVars>>

\* the read results on the local side that make do_proxy return
LocalReadEnds(n) == n < 0
\* the read results on the target side that make do_proxy return
TargetReadEnds(n) == n <= 0

\* read(fd, buf, sizeof buf): -1 on error, 0 at end of file, else 1..sizeof buf
ReadResults(side) ==
    IF input[side] = <<>> THEN {-1, 0}
    ELSE {-1} \cup 1..Min(ChunkSize, Len(input[side]))

\* writeall(fd, buf, count) is entered; with count = 0 it returns 0 at once
CallWriteall(fd, n, after) ==
    IF n > 0
    THEN /\ wfd' = fd /\ woff' = 0 /\ wcount' = n
         /\ pc' = "writeall"
         /\ hist' = [hist EXCEPT !.wa = [NoWriteall EXCEPT !.fd = fd,
                                         !.data = SubSeq(buf', 1, n),
                                         !.from = Len(delivered[fd])]]
    ELSE /\ UNCHANGED <<wfd, woff, wcount>>
         /\ pc' = after
         /\ hist' = [hist EXCEPT !.wa = [NoWriteall EXCEPT !.fd = fd,
                                         !.from = Len(delivered[fd]),
                                         !.done = TRUE]]

\* if (FD_ISSET(0, &set)): read, return on failure, writeall(pty, buf, count)
ReadLocal ==
    /\ pc = "read_local"
    /\ \E n \in ReadResults("local") :
          /\ count' = n
          /\ IF LocalReadEnds(n)
             THEN /\ ProxyReturn(IF n = 0 THEN "local_eof" ELSE "local_error")
                  /\ UNCHANGED <<buf, input, wfd, woff, wcount>>
             ELSE /\ buf' = IF n > 0 THEN SubSeq(input["local"], 1, n) ELSE buf
                  /\ input' = [input EXCEPT !["local"] = SubSeq(@, n + 1, Len(@))]
                  /\ CallWriteall("pty", n, AfterLocal(set))
    /\ UNCHANGED <<argVars, env, exitCode, ptyVars, msgs, termVars, sigVars, sizeVars,
                   delivered, set>>

\* if (FD_ISSET(pty, &set)): read, return on failure or EOF, writeall(1, buf, count)
ReadPty ==
    /\ pc = "read_pty"
    /\ \E n \in ReadResults("pty") :
          /\ count' = n
          /\ IF TargetReadEnds(n)
             THEN /\ ProxyReturn(IF n = 0 THEN "target_eof" ELSE "target_error")
                  /\ UNCHANGED <<buf, input, wfd, woff, wcount>>
             ELSE /\ buf' = IF n > 0 THEN SubSeq(input["pty"], 1, n) ELSE buf
                  /\ input' = [input EXCEPT !["pty"] = SubSeq(@, n + 1, Len(@))]
                  /\ CallWriteall("out", n, "loop")
    /\ UNCHANGED <<argVars, env, exitCode, ptyVars, msgs, termVars, sigVars, sizeVars,
                   delivered, set>>


(***************************** writeall ************************************)
\* results of write(fd, buf, count): bytes written, or -1 with an errno
WriteResults(n) ==
    {[rv |-> k, errno |-> "none"] : k \in 1..n}
    \cup {[rv |-> -1, errno |-> "EINTR"], [rv |-> -1, errno |-> "EIO"]}

\* one pass of the loop of writeall after write returned w: the new buf
\* offset and count, and whether and what writeall returns
WriteallPassNoAdvance(off, cnt, w) ==
    IF w.rv < 0
    THEN IF w.errno = "EINTR"
         THEN [off |-> off, cnt |-> cnt, done |-> FALSE, ret |-> 0]
         ELSE [off |-> off, cnt |-> cnt, done |-> TRUE, ret |-> w.rv]
    ELSE [off |-> off, cnt |-> cnt - w.rv,
          done |-> ~(cnt - w.rv > 0), ret |-> 0]

WriteallPassNoRetry(off, cnt, w) ==
    IF w.rv < 0
    THEN [off |-> off, cnt |-> cnt, done |-> TRUE, ret |-> w.rv]
    ELSE [off |-> off + w.rv, cnt |-> cnt - w.rv,
          done |-> ~(cnt - w.rv > 0), ret |-> 0]

WriteallPass(off, cnt, w) ==
    IF w.rv < 0
    THEN IF w.errno = "EINTR"
         THEN [off |-> off, cnt |-> cnt, done |-> FALSE, ret |-> 0]
         ELSE [off |-> off, cnt |-> cnt, done |-> TRUE, ret |-> w.rv]
    ELSE [off |-> off + w.rv, cnt |-> cnt - w.rv,
          done |-> ~(cnt - w.rv > 0), ret |-> 0]

\* write(fd, buf, count) and the rest of the loop body of writeall; the
\* caller discards the value writeall returns
WriteStep ==
    /\ pc = "writeall"
    /\ \E w \in WriteResults(wcount) :
          LET p == WriteallPass(woff, wcount, w) IN
          /\ delivered' = IF w.rv > 0
                          THEN [delivered EXCEPT ![wfd] =
                                   @ \o SubSeq(buf, woff + 1, woff + w.rv)]
                          ELSE delivered
          /\ wfd' = IF p.done THEN "none" ELSE wfd
          /\ woff' = IF p.done THEN 0 ELSE p.off
          /\ wcount' = IF p.done THEN 0 ELSE p.cnt
          /\ pc' = IF ~p.done THEN "writeall"
                   ELSE IF wfd = "pty" THEN AfterLocal(set) ELSE "loop"
          /\ hist' = [hist EXCEPT
                 !.wa.done = p.done, !.wa.ret = p.ret, !.wa.errno = w.errno,
                 !.wa.eintr = @ \/ w.errno = "EINTR",
                 !.gaveUp = IF p.done /\ p.ret # 0 THEN @ \cup {wfd} ELSE @]
    /\ UNCHANGED <<argVars, env, exitCode, ptyVars, msgs, termVars, sigVars, sizeVars,
                   input, set, buf, count>>

(***************************** teardown ************************************)
TeardownReturnByCause == Exit(IF hist.loopEnd = "pselect" THEN 1 ELSE 0)
\* return 0 at the end of main
TeardownReturn == Exit(0)

\* the teardown loop of main: before its first tcsetattr, and after one that
\* was interrupted
TeardownPcs == {"restore", "restore_retry"}

\* outcomes of tcsetattr(0, TCSANOW, &saved_termios): success or an errno
TcsetattrResults == {"ok", "EINTR", "EIO"}

TeardownPassGivesUp(r) == IF r = "EIO" THEN "die" ELSE "return"
\* one pass of the teardown loop after tcsetattr ended with r: die when it
\* failed and errno != EINTR, go round again while (errno == EINTR), else
\* leave the loop and return
TeardownPass(r) ==
    IF r # "ok" /\ r # "EINTR" THEN "die"
    ELSE IF r = "EINTR" THEN "retry" ELSE "return"

\* do { errno = 0; if (tcsetattr(0, TCSANOW, &saved_termios) && errno != EINTR)
\*          die(...); } while (errno == EINTR); return 0;
Restore ==
    /\ pc \in TeardownPcs
    /\ \E r \in TcsetattrResults :
          LET path == TeardownPass(r) IN
          /\ IF r = "ok"
             THEN tty_termios' \in ValuesOf(saved_termios)
             ELSE tty_termios' = tty_termios
          /\ CASE path = "return" ->
                     /\ hist' = [hist EXCEPT
                            !.restores = IF r = "ok" THEN @ + 1 ELSE @]
                     /\ TeardownReturn
                     /\ UNCHANGED msgs
               [] path = "retry" ->
                     /\ pc' = "restore_retry"
                     /\ UNCHANGED <<hist, exitCode, msgs>>
               [] OTHER ->
                     Die("tcsetattr_restore")
    /\ UNCHANGED <<argVars, env, ptyVars, saved_termios, sigVars, sizeVars, ioVars, bufVars>>

(**************************** environment **********************************)
RelayPcs == {"sigprocmask", "sigaction", "resize_pty", "loop", "pselect",
             "read_local", "read_pty", "writeall"}

\* a byte becomes readable on a side
Arrive(side) ==
    /\ pc \in RelayPcs
    /\ hist.arrived[side] < env[side]
    /\ input' = [input EXCEPT ![side] = Append(@, Byte(side, hist.arrived[side] + 1))]
    /\ hist' = [hist EXCEPT !.arrived[side] = @ + 1]
    /\ UNCHANGED <<argVars, env, pc, exitCode, ptyVars, msgs, termVars, sigVars, sizeVars,
                   delivered, bufVars>>

\* the controlling terminal is resized and SIGWINCH is sent: it stays pending
\* while blocked; unblocked, it runs the handler at once when one is
\* installed and is discarded under the default disposition otherwise
Winch ==
    /\ pc \in RelayPcs
    /\ hist.winches < env.winches
    /\ \E sz \in TtySizes \ {ttySize} : ttySize' = sz
    /\ sigPending' = IF sigBlocked THEN TRUE ELSE sigPending
    /\ winch_happened' = IF ~sigBlocked /\ handler THEN TRUE ELSE winch_happened
    /\ hist' = [hist EXCEPT !.winches = @ + 1]
    /\ UNCHANGED <<argVars, env, pc, exitCode, ptyVars, msgs, termVars, sigBlocked, handler,
                   ptySize, ioVars, bufVars>>

Next ==
    \/ GetOpt
    \/ CheckArgs
    \/ AllocatePty
    \/ ParsePid
    \/ Attach
    \/ Detached
    \/ ChildRun
    \/ SetupRaw
    \/ BlockWinch
    \/ InstallHandler
    \/ FirstResize
    \/ LoopTop
    \/ PselectReady
    \/ PselectInterrupted
    \/ PselectFails
    \/ ReadLocal
    \/ ReadPty
    \/ WriteStep
    \/ Restore
    \/ \E side \in Sides : Arrive(side)
    \/ Winch

Spec == Init /\ [][Next]_vars

(************************ the relay under fairness *************************)
\* the steps of the process itself
ProcessNext ==
    \/ GetOpt \/ CheckArgs \/ AllocatePty \/ ParsePid \/ Attach \/ Detached
    \/ SetupRaw \/ BlockWinch \/ InstallHandler \/ FirstResize \/ LoopTop
    \/ PselectReady \/ PselectInterrupted \/ PselectFails
    \/ ReadLocal \/ ReadPty \/ WriteStep \/ Restore

\* an attach with resizes and a byte from the target, and a detached command
FairScenarios ==
    {<< <<Prog, One>>, [local |-> 0, pty |-> 1, winches |-> MaxWinch] >>,
     << <<Prog, Opt("l"), Cmd>>, Quiet >>}

FairInit == InitWith(FairScenarios)

\* The process is scheduled as long as it can take a step (so a system call
\* is not interrupted forever), and a SIGWINCH that is pending and unblocked
\* in pselect again and again is delivered in the end.
FairSpec ==
    /\ FairInit
    /\ [][Next]_vars
    /\ WF_vars(ProcessNext)
    /\ SF_vars(PselectInterrupted)


(***************************************************************************)
(*                              Properties                                 *)
(***************************************************************************)
Exited == pc = "exited"
\* the process has taken a step of its own
ProcessStep == pc' # pc
\* a read or a write of the relay happens in the step
RelaysBytes ==
    \/ \E side \in Sides : Len(input'[side]) < Len(input[side])
    \/ delivered' # delivered
\* the step is a call of resize_pty
ResizeCalled == hist'.resize.calls # hist.resize.calls
Said(m) == \E i \in 1..Len(msgs) : msgs[i] = m
\* the bytes the environment has supplied on a side so far
Payload(side) == [i \in 1..hist.arrived[side] |-> Byte(side, i)]
\* the bytes a writeall under way still holds for a destination
InFlight(dest) ==
    IF pc = "writeall" /\ wfd = dest THEN SubSeq(buf, woff + 1, woff + wcount) ELSE <<>>
\* a word of decimal digits, and its value
IsNumeral(w) == Len(w) >= 1 /\ \A i \in 1..Len(w) : w[i] \in Digits
RECURSIVE NumeralValue(_)
NumeralValue(w) ==
    IF w = <<>> THEN 0
    ELSE NumeralValue(SubSeq(w, 1, Len(w) - 1)) * 10 + DigitVal(w[Len(w)])
\* the pid word of the command line, once the options are parsed
PidWord == Word(optind)

(* C1: however the relay loop ends (a failed local read, a failed or ended
   target read, a wait error), do_proxy returns into the restore and nowhere
   else; the restore succeeds at most once, and when the process then leaves
   with the snapshot setup_raw took, the terminal has exactly the attributes
   it had before raw mode, which are the ones saved. *)
C1_RestoredAfterEveryLoopEnd ==
    /\ hist.restores <= 1
    /\ hist.loopEnd # "none" => pc \in TeardownPcs \cup {"exited"}
    /\ pc \in TeardownPcs => hist.restores = 0
    /\ (Exited /\ hist.loopEnd # "none") =>
          \/ /\ hist.died = "none"
             /\ hist.restores = 1
             /\ hist.snapshot =>
                   /\ saved_termios.valid /\ saved_termios.attr = hist.tty0
                   /\ tty_termios = hist.tty0
          \/ hist.died = "tcsetattr_restore" /\ hist.restores = 0

C1_Witness ==
    /\ Exited
    /\ hist.loopEnd = "target_eof"
    /\ hist.rawSet
    /\ hist.restores = 1
    /\ tty_termios = hist.tty0
    /\ tty_termios # CfMakeRaw(hist.tty0)

(* C2 as stated: once the handler is installed and a resize notification has
   arrived (pending, or flagged), no byte is read or written before the size
   has been propagated. *)
C2_NoByteBeforeResize ==
    [][(handler /\ (sigPending \/ winch_happened)) => ~RelaysBytes]_vars

(* C2 amended: a notification that interrupts the wait sets the flag and sends
   the loop back to its top, where the next step of the process calls
   resize_pty, clears the flag and relays no byte; when both ioctls succeed
   the target then has the terminal's current size.  While the flag of an
   interrupted wait is set the process is nowhere but at the top of the loop. *)
C2_InterruptedWaitResizesFirst ==
    /\ []((hist.lastWait = "EINTR" /\ pc # "loop") => ~winch_happened)
    /\ [][(pc = "pselect" /\ pc' = "loop") =>
             (winch_happened' /\ ~sigPending' /\ ~RelaysBytes)]_vars
    /\ [][(pc = "loop" /\ winch_happened /\ ProcessStep) =>
             /\ pc' = "pselect"
             /\ ResizeCalled
             /\ ~winch_happened'
             /\ ~RelaysBytes
             /\ (hist'.resize.got /\ hist'.resize.applied) => ptySize' = ttySize]_vars

C2_Witness ==
    /\ hist.lastWait = "EINTR"
    /\ pc = "pselect"
    /\ ~winch_happened
    /\ hist.resize.got /\ hist.resize.applied
    /\ ptySize = ttySize
    /\ ptySize = <<50, 132, 0, 0>>

(* C3: a read on the local side that returns zero or less makes do_proxy
   return: the loop does not go on to the target side or back to the wait. *)
C3_NonPositiveLocalReadEnds ==
    [][(pc = "read_local" /\ ProcessStep /\ count' <= 0) => pc' = "restore"]_vars

(* C4 as stated: with -l or -L the terminal is never put in raw mode and
   do_proxy is never called. *)
C4_DetachedNeverRelays ==
    ~do_attach => (~hist.rawSet /\ ~hist.proxy /\ pc \notin RelayPcs)

(* C4 amended: with -l or -L the slave's path is printed and a child is forked
   only when argc > 2; with or without a command the parent then goes on to
   setup_raw and do_proxy and exits only once the relay has ended, or in a
   die() of the pty setup, of setup_raw or of the restore. *)
C4_DetachedRelaysToo ==
    ~do_attach =>
       /\ hist.forks > 0 => argc > 2
       /\ hist.proxy => \E path \in Ptsname(pty) : Said(<<"opened", path>>)
       /\ pc \in RelayPcs => hist.proxy
       /\ Exited =>
             \/ hist.died \in {"get_pt", "unlockpt", "grantpt", "tcsetattr_raw"}
             \/ hist.proxy /\ hist.loopEnd # "none"

C4_Witness ==
    /\ argv = <<Prog, Opt("l")>>
    /\ Said(<<"opened", "/dev/pts/new">>)
    /\ hist.rawSet
    /\ pc = "pselect"
    /\ hist.forks = 0

(* C5 as stated: when the program exits for a missing or an invalid pid, no
   pseudo-terminal has been allocated, unlocked or granted. *)
C5_ArgumentErrorBeforeAllocation ==
    (Exited /\ (Said(<<"no_pid">>) \/ hist.died \in InvalidPid)) =>
       (ptyOps = <<>> /\ pty = "uninit")

(* C5 amended: a missing pid ends the program with status 1 before anything is
   allocated.  A pid word that is not a numeral ends it with status 1 before
   the backend is called and before raw mode, but after the pseudo-terminal has
   been allocated, unlocked and granted, unless -T was given. *)
C5_ArgumentErrorBeforeBackend ==
    /\ (Exited /\ Said(<<"no_pid">>)) =>
          (exitCode = 1 /\ ptyOps = <<>> /\ pty = "uninit" /\ calls = <<>>
           /\ ~hist.proxy)
    /\ (Exited /\ hist.died \in InvalidPid) =>
          /\ exitCode = 1 /\ calls = <<>> /\ ~hist.proxy
          /\ ptyOps = IF do_steal THEN <<>> ELSE PtySetupCalls
    /\ (pc = "attach" \/ calls # <<>>) => IsNumeral(PidWord)

C5_Witness ==
    /\ Exited
    /\ hist.died = "not_integer"
    /\ PidWord = <<"1", "x">>
    /\ ptyOps = PtySetupCalls
    /\ pty = "master"

(* C6: a pid word whose value is below 1, above the largest pid_t or out of
   the range of long ends the program with status 1 and no backend call; every
   numeral from 1 to the largest pid_t is accepted, and the backend is called
   with exactly that value. *)
C6_PidRange ==
    /\ calls # <<>> =>
          /\ IsNumeral(PidWord)
          /\ NumeralValue(PidWord) \in 1..PID_MAX
          /\ calls[1].pid = NumeralValue(PidWord)
          /\ calls[1].fn = IF do_steal THEN "steal_pty" ELSE "attach_child"
    /\ (Exited /\ hist.died \in InvalidPid) =>
          /\ exitCode = 1 /\ calls = <<>>
          /\ ~(IsNumeral(PidWord) /\ NumeralValue(PidWord) \in 1..PID_MAX)

C6_Witness ==
    /\ Len(calls) = 1
    /\ calls[1].pid = PID_MAX
    /\ hist.err = "OK"

(* C7: as long as no write to a destination has failed with an error other
   than EINTR, the bytes delivered to it, those a writeall still holds for it
   and those not yet read are, in this order, exactly the bytes supplied on
   the other side: nothing is changed, lost, repeated or reordered, whatever
   the reads and the partial writes. *)
C7_ByteExact ==
    \A side \in Sides :
       Dest(side) \notin hist.gaveUp =>
          delivered[Dest(side)] \o InFlight(Dest(side)) \o input[side] = Payload(side)

C7_Witness ==
    /\ hist.gaveUp = {}
    /\ Len(delivered["pty"]) > ChunkSize
    /\ delivered["pty"] = Payload("local")
    /\ delivered["out"] = Payload("pty")
    /\ delivered["out"] # <<>>

(* C8: writeall returns 0 only when the destination has received exactly the
   count bytes of buf since the call; it returns non-zero exactly when its last
   write failed with an error other than EINTR; and at every point of the call,
   also after an interrupted write, the bytes written so far and the bytes it
   still holds make up the buffer it was given. *)
C8_Writeall ==
    LET wa == hist.wa
        written == SubSeq(delivered[wa.fd], wa.from + 1, Len(delivered[wa.fd]))
    IN wa.fd # "none" =>
          /\ (wa.done /\ wa.ret = 0) => written = wa.data
          /\ wa.done => (wa.ret # 0 <=> wa.errno \notin {"none", "EINTR"})
          /\ ~wa.done =>
                /\ pc = "writeall" /\ wfd = wa.fd
                /\ written \o SubSeq(buf, woff + 1, woff + wcount) = wa.data
                /\ wcount > 0

C8_Witness ==
    /\ hist.wa.done
    /\ hist.wa.ret = 0
    /\ hist.wa.eintr
    /\ Len(hist.wa.data) = ChunkSize
    /\ delivered[hist.wa.fd] = hist.wa.data

(* C9 as stated: when the size of the controlling terminal cannot be read, the
   size applied to the target is 30 rows, 80 columns and zero pixels. *)
C9_FallbackZeroPixels ==
    (~hist.resize.got /\ hist.resize.applied) => ptySize = <<30, 80, 0, 0>>

(* C9 amended: when the size of the controlling terminal cannot be read, at
   startup and on every later resize, the size applied to the target is 30
   rows, 80 columns, 640 by 480 pixels; a failure to apply it is reported and
   the relay goes on to the wait. *)
C9_FallbackSize ==
    /\ []((~hist.resize.got /\ hist.resize.applied) => ptySize = <<30, 80, 640, 480>>)
    /\ [][(ResizeCalled /\ ~hist'.resize.got) =>
             /\ pc' \in {"loop", "pselect"}
             /\ IF hist'.resize.applied
                THEN ptySize' = <<30, 80, 640, 480>> /\ msgs' = msgs
                ELSE /\ ptySize' = ptySize
                     /\ msgs' = Append(msgs, <<"cannot_set_terminal_size">>)]_vars

C9_Witness ==
    /\ hist.lastWait = "EINTR"
    /\ pc = "pselect"
    /\ ~hist.resize.got /\ hist.resize.applied
    /\ ptySize = <<30, 80, 640, 480>>
    /\ hist.winches = MaxWinch

(* C10: when attach_child or steal_pty returns an error the program exits with
   status 1, not having touched the terminal attributes nor called do_proxy;
   check_ptrace_scope is called once when the error is EPERM and not at all
   otherwise. *)
C10_BackendFailure ==
    /\ hist.err \notin {"none", "OK"} =>
          /\ Exited /\ exitCode = 1
          /\ ~hist.rawSet /\ ~hist.proxy /\ ~saved_termios.valid
          /\ tty_termios = hist.tty0
          /\ Said(<<"unable_to_attach", child, hist.err>>)
    /\ hist.diag = IF hist.err = "EPERM" THEN 1 ELSE 0

C10_Witness ==
    /\ hist.err = "EPERM"
    /\ hist.diag = 1
    /\ Exited /\ exitCode = 1
    /\ calls[1].fn = "steal_pty"

(* C11 as stated: once do_proxy has been called, the process exits only with
   status 0 and with the teardown's tcsetattr done. *)
C11_AlwaysExitZero ==
    (Exited /\ hist.proxy) => (exitCode = 0 /\ hist.restores = 1)

(* C11 amended: once do_proxy has been called the process exits only after do_proxy
   has returned; whichever way it returned (sigprocmask failure, wait error,
   failed local read, failed or ended target read) the exit status is 0 and a
   successful tcsetattr of the teardown comes before the exit, putting back the
   startup attributes when setup_raw saved them.  The only other exit is the
   die() of a restore that failed with an error other than EINTR. *)
C11_ExitZeroAfterRelay ==
    /\ pc \in RelayPcs \cup TeardownPcs => (hist.proxy /\ ~Exited /\ exitCode = -1)
    /\ (Exited /\ hist.proxy) =>
          /\ hist.loopEnd # "none"
          /\ IF hist.died = "none"
             THEN /\ exitCode = 0
                  /\ hist.restores = 1
                  /\ hist.snapshot => tty_termios = hist.tty0
             ELSE /\ hist.died = "tcsetattr_restore"
                  /\ exitCode = 1
                  /\ hist.restores = 0

C11_Witness ==
    /\ Exited
    /\ exitCode = 0
    /\ hist.loopEnd = "pselect"
    /\ hist.rawSet
    /\ hist.restores = 1
    /\ tty_termios = hist.tty0

(* C12: with -l or -L a child is forked only when words remain after the
   option; the child executes the first of them with the words from it on as
   its argument vector, has REPTYR_PTY set to the slave's path, and is
   redirected to the slave exactly when -L was given. *)
C12_ChildOfTrailingCommand ==
    /\ hist.forks > 0 => (~do_attach /\ optind < argc)
    /\ kid.pc \in {"exec", "exited"} =>
          /\ optind < argc
          /\ kid.file = Word(optind)
          /\ kid.args = SubSeq(argv, optind + 1, Len(argv))
          /\ kid.REPTYR_PTY \in Ptsname(pty)
          /\ kid.redirected = unattached_script_redirection

(* C13: whenever the loop is in the wait, every byte read so far has been
   written to its destination: what has been delivered and what is still
   unread make up the bytes supplied, also after a write that failed with an
   error other than EINTR. *)
C13_FlushedBeforeWait ==
    pc = "pselect" =>
       \A side \in Sides :
          delivered[Dest(side)] \o input[side] = Payload(side)

\* do_proxy has returned, or the process is gone
RelayOver == pc \in TeardownPcs \cup {"exited"}
\* the target has the terminal's size, unless an ioctl of the last resize_pty
\* failed
Propagated == (hist.resize.got /\ hist.resize.applied) => ptySize = ttySize

(* C14: with the handler installed, the loop is never in the wait with the
   flag set, and a pending notification can always interrupt the wait; under
   FairSpec every pending notification leads, unless the relay ends, to a state
   where nothing is pending, the flag is clear and the target has the
   terminal's current size. *)
C14_NoResizeMissed ==
    /\ [](pc = "pselect" => ~winch_happened)
    /\ []((pc = "pselect" /\ handler /\ sigPending) => ENABLED PselectInterrupted)
    /\ ((handler /\ sigPending) ~>
           (RelayOver \/ (~sigPending /\ ~winch_happened /\ Propagated)))

C14_Witness ==
    /\ hist.winches = MaxWinch
    /\ hist.lastWait = "EINTR"
    /\ pc = "pselect"
    /\ sigBlocked /\ handler
    /\ ~sigPending /\ ~winch_happened
    /\ hist.resize.got /\ hist.resize.applied
    /\ ptySize = ttySize

(* C15: once do_winch is installed SIGWINCH is blocked everywhere but in
   pselect, so the flag is set only in a step of the wait, by the handler
   taking the pending signal, and that step calls no resize_pty, prints nothing
   and moves no byte; the flag is cleared only at the top of the loop, in the
   step that calls resize_pty; and resize_pty is called nowhere but there and
   once before the loop. *)
C15_HandlerOnlySetsFlag ==
    /\ [](handler => sigBlocked)
    /\ [][(~winch_happened /\ winch_happened') =>
             /\ pc = "pselect" /\ handler
             /\ sigPending /\ ~sigPending'
             /\ ~ResizeCalled /\ ptySize' = ptySize
             /\ msgs' = msgs /\ ~RelaysBytes]_vars
    /\ [][(sigPending /\ ~sigPending') => (pc = "pselect" /\ winch_happened')]_vars
    /\ [][(winch_happened /\ ~winch_happened') =>
             (pc = "loop" /\ pc' = "pselect" /\ ResizeCalled)]_vars
    /\ [][(ResizeCalled \/ ptySize' # ptySize) => pc \in {"resize_pty", "loop"}]_vars

C15_Witness ==
    /\ pc = "loop"
    /\ winch_happened
    /\ hist.lastWait = "EINTR"
    /\ ~sigPending
    /\ hist.resize.got /\ hist.resize.applied
    /\ ptySize # ttySize

(* C16: when tcgetattr fails in setup_raw the failure is reported, nothing is
   saved, the terminal keeps its startup attributes and do_proxy still runs;
   when tcsetattr fails in setup_raw the process exits with status 1, the
   terminal unchanged and do_proxy never called.  The relay runs with the
   terminal in raw mode in every other case. *)
C16_AcquireFailures ==
    /\ Said(<<"unable_to_read_attributes">>) =>
          /\ hist.proxy /\ hist.died # "tcsetattr_raw"
          /\ ~hist.rawSet /\ ~hist.snapshot /\ ~saved_termios.valid
          /\ hist.restores = 0 => tty_termios = hist.tty0
    /\ hist.died = "tcsetattr_raw" =>
          /\ Exited /\ exitCode = 1
          /\ ~hist.proxy /\ hist.loopEnd = "none" /\ hist.lastWait = "none"
          /\ ~sigBlocked /\ ~handler
          /\ tty_termios = hist.tty0
    /\ pc \in RelayPcs =>
          /\ hist.proxy
          /\ \/ Said(<<"unable_to_read_attributes">>)
             \/ hist.rawSet /\ tty_termios = CfMakeRaw(hist.tty0)

C16_Witness ==
    /\ Said(<<"unable_to_read_attributes">>)
    /\ pc = "pselect"
    /\ hist.lastWait = "ready"
    /\ tty_termios = hist.tty0
    /\ tty_termios # CfMakeRaw(hist.tty0)

(* C17: a pass of the teardown loop either is interrupted, and then nothing
   has changed and the loop goes round again; or succeeds, and then the process
   leaves with status 0 after this one successful tcsetattr of saved_termios;
   or fails otherwise, and then the process dies with status 1 and the terminal
   untouched.  Under FairSpec, where no system call is interrupted forever, the
   teardown always ends in one of the two exits. *)
C17_ReleaseRetries ==
    /\ [](hist.restores <= 1)
    /\ [](pc \in TeardownPcs => (hist.restores = 0 /\ ~Exited))
    /\ [][(pc \in TeardownPcs /\ pc' # pc) =>
             \/ /\ pc' = "restore_retry"
                /\ tty_termios' = tty_termios /\ hist' = hist /\ msgs' = msgs
             \/ /\ Exited' /\ exitCode' = 0
                /\ hist'.restores = 1 /\ hist'.died = "none"
                /\ tty_termios' \in ValuesOf(saved_termios)
                /\ msgs' = msgs
             \/ /\ Exited' /\ exitCode' = 1
                /\ hist'.restores = 0 /\ hist'.died = "tcsetattr_restore"
                /\ tty_termios' = tty_termios]_vars
    /\ (pc \in TeardownPcs ~> Exited)

C17_Witness ==
    /\ pc = "restore_retry"
    /\ hist.loopEnd = "target_eof"
    /\ hist.rawSet
    /\ hist.restores = 0
    /\ tty_termios = CfMakeRaw(hist.tty0)

(* C18: with -T nothing is allocated, unlocked or granted, steal_pty is the
   one backend call, and do_proxy runs on the descriptor steal_pty stored;
   without -T, attaching to a pid, get_pt, unlockpt and grantpt have been
   called in this order before attach_child is called, once, with the path of
   the slave of that master, and do_proxy runs on that master. *)
C18_StealAndAttachOrder ==
    /\ do_steal => ptyOps = <<>>
    /\ (do_attach /\ do_steal) =>
          /\ calls # <<>> => (Len(calls) = 1 /\ calls[1].fn = "steal_pty")
          /\ pty = "stolen" <=> hist.err = "OK"
          /\ hist.proxy => pty = "stolen"
    /\ (do_attach /\ ~do_steal) =>
          /\ pty \in {"uninit", "master"}
          /\ (pc = "attach" \/ calls # <<>>) =>
                (ptyOps = PtySetupCalls /\ pty = "master")
          /\ calls # <<>> =>
                /\ Len(calls) = 1
                /\ calls[1].fn = "attach_child"
                /\ calls[1].path = "/dev/pts/new"
          /\ hist.proxy => (pty = "master" /\ hist.err = "OK")

C18_Witness ==
    /\ do_attach /\ do_steal
    /\ pc = "pselect"
    /\ pty = "stolen"
    /\ ptyOps = <<>>
    /\ calls[1].fn = "steal_pty"
    /\ calls[1].pid = 1

(* C19: int pty has been assigned, by get_pt or by a successful steal_pty,
   whenever its slave's path has been printed or passed to the backend, a
   child has been forked to export the path and close it, or do_proxy has been
   called with it. *)
C19_PtyAssignedBeforeUse ==
    (\/ \E i \in 1..Len(msgs) : msgs[i][1] = "opened"
     \/ \E i \in 1..Len(calls) : calls[i].fn = "attach_child"
     \/ kid.pc # "none"
     \/ hist.proxy)
       => pty # "uninit"

(* C20: the teardown applies saved_termios to the terminal only when setup_raw
   stored a snapshot in it; when tcgetattr failed in setup_raw no tcsetattr of
   the teardown takes effect and the terminal has its startup attributes at
   the exit. *)
C20_TeardownWritesOnlySnapshot ==
    /\ hist.restores > 0 => (hist.snapshot /\ saved_termios.valid)
    /\ Said(<<"unable_to_read_attributes">>) => tty_termios = hist.tty0

====
